---- MODULE Spec2Model ----
(***************************************************************************)
(* Invoicing ROI simulator (server/index.js): the input validator, the ROI *)
(* calculator and the scenario routes of the Express server, in its        *)
(* MongoDB and its PostgreSQL variant.                                     *)
(*                                                                         *)
(* JavaScript numbers are modelled as exact rationals (normalised          *)
(* numerator / denominator) plus NaN; null is a third kind.  Binary        *)
(* floating-point representation error is abstracted away: arithmetic is   *)
(* exact and toFixed(2) rounds the exact value half away from zero.        *)
(***************************************************************************)
EXTENDS Integers, Sequences, FiniteSets, TLC

VARIABLES
    store,      \* the scenarios collection: documents in insertion order
    nextId,     \* the next generated document id
    clock,      \* the latest reading of the server's clock (Date), in ticks
    inflight,   \* the POST /scenarios handlers: idle, or suspended at an await
    saved,      \* history: live id -> the validated inputs and results of its save
    resp,       \* the response most recently sent
    cBody,      \* calculator pipeline: the raw request body being handled
    cPc,        \* calculator pipeline: "start" | "rejected" | "validated" | "calculated"
    cOut,       \* calculator pipeline: [inputs, errors, results] produced so far
    pgStore,    \* PostgreSQL server: the rows of table scenarios, in insertion order
    pgNextId,   \* PostgreSQL server: the next generated row id
    pgClock,    \* PostgreSQL server: the latest reading of its clock, in ticks
    pgInflight, \* PostgreSQL server: its POST /scenarios handler
    pgResp,     \* PostgreSQL server: the response most recently sent
    phase,      \* side-by-side run: "idle" | "mongo" | "pg", who handles req
    req,        \* side-by-side run: the request sent to both servers
    uiInputs,   \* form: the inputs state of App
    uiResults,  \* form: the results state of App (NoResults for null)
    uiRuns,     \* form: the runs of the live-simulate effect, oldest first
    uiBusy      \* form: the save or load in progress (loading is true), if any

srvVars == <<store, nextId, clock, inflight, saved, resp>>

calcVars == <<cBody, cPc, cOut>>

pgVars == <<pgStore, pgNextId, pgClock, pgInflight, pgResp>>

runVars == <<phase, req>>

uiVars == <<uiInputs, uiResults, uiRuns, uiBusy>>

\* What the form and its requests leave alone.
otherVars == <<calcVars, pgVars, runVars>>

\* What the routes of the MongoDB server leave alone.
sideVars == <<calcVars, pgVars, runVars, uiVars>>

vars == <<store, nextId, clock, inflight, saved, resp, cBody, cPc, cOut,
          pgStore, pgNextId, pgClock, pgInflight, pgResp, phase, req,
          uiInputs, uiResults, uiRuns, uiBusy>>

(***************************************************************************)
(* Numbers                                                                 *)
(***************************************************************************)
Abs(x) == IF x < 0 THEN -x ELSE x

RECURSIVE GCD(_, _)
GCD(a, b) == IF b = 0 THEN a ELSE GCD(b, a % b)

\* The rational n/d in lowest terms with a positive denominator.
Rat(n, d) ==
    LET s == IF d < 0 THEN -1 ELSE 1
        g == GCD(Abs(n), Abs(d))
    IN  [k |-> "num", n |-> (s * n) \div g, d |-> (s * d) \div g]

Int2Num(n) == [k |-> "num", n |-> n, d |-> 1]
NaN == [k |-> "nan", n |-> 0, d |-> 1]
Null == [k |-> "null", n |-> 0, d |-> 1]

IsFinite(x) == x.k = "num"

\* x * y, cross-reduced before multiplying; NaN if either is NaN.
Mul(x, y) ==
    IF ~IsFinite(x) \/ ~IsFinite(y) THEN NaN
    ELSE LET g1 == GCD(Abs(x.n), y.d)
             g2 == GCD(Abs(y.n), x.d)
         IN  Rat((x.n \div g1) * (y.n \div g2), (x.d \div g2) * (y.d \div g1))

Add(x, y) ==
    IF ~IsFinite(x) \/ ~IsFinite(y) THEN NaN
    ELSE LET g == GCD(x.d, y.d)
         IN  Rat(x.n * (y.d \div g) + y.n * (x.d \div g), (x.d \div g) * y.d)

Neg(x) == IF IsFinite(x) THEN [x EXCEPT !.n = -x.n] ELSE x

Sub(x, y) == Add(x, Neg(y))

\* x / y for y # 0.
Div(x, y) ==
    IF ~IsFinite(x) \/ ~IsFinite(y) THEN NaN
    ELSE Mul(x, Rat(y.d, y.n))

\* Comparisons are false when either side is NaN, as in JavaScript.
Lt(x, y) == IsFinite(x) /\ IsFinite(y) /\ Sub(x, y).n < 0
Gt(x, y) == Lt(y, x)
Le(x, y) == IsFinite(x) /\ IsFinite(y) /\ Sub(x, y).n <= 0

\* Math.max / Math.min: NaN if either argument is NaN.
MathMax(x, y) == IF ~IsFinite(x) \/ ~IsFinite(y) THEN NaN ELSE IF Lt(x, y) THEN y ELSE x
MathMin(x, y) == IF ~IsFinite(x) \/ ~IsFinite(y) THEN NaN ELSE IF Lt(y, x) THEN y ELSE x

\* Faulty variant of ToFixed2: truncates toward zero instead of rounding.
ToFixed2_Truncate(x) ==
    LET a == Abs(x.n)
        m == (100 * a) \div x.d
    IN  Rat(IF x.n < 0 THEN -m ELSE m, 100)

\* Number(x.toFixed(2)): the nearest multiple of 1/100, ties away from zero.
ToFixed2(x) ==
    LET a == Abs(x.n)
        q == a \div x.d
        r == a % x.d
        c == (2 * 100 * r + x.d) \div (2 * x.d)
        m == 100 * q + c
    IN  Rat(IF x.n < 0 THEN -m ELSE m, 100)

(***************************************************************************)
(* Raw JSON values of a request body.  A numeric field holds a JSON number *)
(* ("num"), a string spelling a number ("numstr"), another string          *)
(* ("text"), the empty string ("empty"), null ("null"), or the key is      *)
(* absent ("absent", read as undefined).  scenario_name holds a string     *)
(* ("str", a sequence of characters), a non-string ("other") or is absent. *)
(***************************************************************************)
Absent == [k |-> "absent", n |-> 0, d |-> 1]
JsonNull == [k |-> "null", n |-> 0, d |-> 1]
EmptyStr == [k |-> "empty", n |-> 0, d |-> 1]
Text == [k |-> "text", n |-> 0, d |-> 1]
NumStr(n, d) == [k |-> "numstr", n |-> n, d |-> d]

NameAbsent == [k |-> "absent", s |-> <<>>]
NameOther == [k |-> "other", s |-> <<>>]
NameStr(s) == [k |-> "str", s |-> s]

\* Number(value): undefined and non-numeric text give NaN; null and "" give 0.
ToNumber(value) ==
    CASE value.k = "num" -> value
      [] value.k = "numstr" -> Rat(value.n, value.d)
      [] value.k = "null" -> Int2Num(0)
      [] value.k = "empty" -> Int2Num(0)
      [] OTHER -> NaN

INTERNAL ==
    [automated_cost_per_invoice |-> Rat(20, 100),
     error_rate_auto |-> Rat(1, 10),
     min_roi_boost_factor |-> Rat(11, 10)]

\* Faulty variant of asNumber: falls back to 0 whatever the fallback (as the
\* form's own number() helper does).
asNumber_ZeroFallback(value, fallback) ==
    LET n == ToNumber(value) IN IF IsFinite(n) THEN n ELSE Int2Num(0)

asNumber(value, fallback) ==
    LET n == ToNumber(value) IN IF IsFinite(n) THEN n ELSE fallback

\* Faulty variant of clamp: the upper bound is not applied.
clamp_NoUpperBound(value, min, max) == MathMax(value, min)

clamp(value, min, max) == MathMin(MathMax(value, min), max)

NonNegativeMsg(name) == <<name, " must be a non-negative number">>
ErrorRateMsg == <<"error_rate_manual", " must be a number between 0 and 100">>
TimeHorizonMsg == <<"time_horizon_months", " must be > 0">>

\* reqNum: the coerced value, and the message it pushes (if any).
reqNum(body, name) ==
    LET v == asNumber(body[name], NaN)
    IN  [v |-> v,
         errors |-> IF ~IsFinite(v) \/ Lt(v, Int2Num(0))
                    THEN <<NonNegativeMsg(name)>> ELSE <<>>]

validateInputs(body) ==
    LET miv == reqNum(body, "monthly_invoice_volume")
        nas == reqNum(body, "num_ap_staff")
        ahi == reqNum(body, "avg_hours_per_invoice")
        hw  == reqNum(body, "hourly_wage")
        ec  == reqNum(body, "error_cost")
        inputs ==
            [scenario_name |-> IF body.scenario_name.k = "str"
                               THEN body.scenario_name.s ELSE <<>>,
             monthly_invoice_volume |-> miv.v,
             num_ap_staff |-> nas.v,
             avg_hours_per_invoice |-> ahi.v,
             hourly_wage |-> hw.v,
             error_rate_manual |->
                 clamp(asNumber(body.error_rate_manual, NaN), Int2Num(0), Int2Num(100)),
             error_cost |-> ec.v,
             time_horizon_months |-> asNumber(body.time_horizon_months, Int2Num(36)),
             one_time_implementation_cost |->
                 asNumber(body.one_time_implementation_cost, Int2Num(0))]
    IN  [inputs |-> inputs,
         errors |-> miv.errors \o nas.errors \o ahi.errors \o hw.errors \o ec.errors
                    \o (IF ~IsFinite(inputs.error_rate_manual)
                        THEN <<ErrorRateMsg>> ELSE <<>>)
                    \o (IF ~IsFinite(inputs.time_horizon_months)
                           \/ Le(inputs.time_horizon_months, Int2Num(0))
                        THEN <<TimeHorizonMsg>> ELSE <<>>)]

\* Lines 87-91 of simulate: the unrounded monthly savings.
monthly_savings(inputs) ==
    LET labor_cost_manual ==
            Mul(Mul(Mul(inputs.num_ap_staff, inputs.hourly_wage),
                    inputs.avg_hours_per_invoice), inputs.monthly_invoice_volume)
        auto_cost == Mul(inputs.monthly_invoice_volume, INTERNAL.automated_cost_per_invoice)
        error_savings ==
            Div(Mul(Mul(Sub(inputs.error_rate_manual, INTERNAL.error_rate_auto),
                        inputs.monthly_invoice_volume), inputs.error_cost),
                Int2Num(100))
    IN  Mul(Sub(Add(labor_cost_manual, error_savings), auto_cost),
            INTERNAL.min_roi_boost_factor)

\* Faulty variant of payback_months: decides on the rounded monthly savings.
payback_months_OnRounded(cost, monthly) ==
    IF Gt(ToFixed2(monthly), Int2Num(0)) THEN Div(cost, monthly) ELSE Null

\* Line 95 of simulate, on the unrounded monthly savings.
payback_months(cost, monthly) ==
    IF Gt(monthly, Int2Num(0)) THEN Div(cost, monthly) ELSE Null

\* Faulty variant of roi_percentage: the zero-cost branch decides on the
\* rounded cumulative savings.
roi_percentage_OnRounded(cost, net, cumulative) ==
    IF Gt(cost, Int2Num(0))
    THEN Mul(Div(net, cost), Int2Num(100))
    ELSE IF Gt(ToFixed2(cumulative), Int2Num(0)) THEN Int2Num(999) ELSE Int2Num(0)

\* Line 96 of simulate, on the unrounded net and cumulative savings.
roi_percentage(cost, net, cumulative) ==
    IF Gt(cost, Int2Num(0))
    THEN Mul(Div(net, cost), Int2Num(100))
    ELSE IF Gt(cumulative, Int2Num(0)) THEN Int2Num(999) ELSE Int2Num(0)

simulate(inputs) ==
    LET monthly == monthly_savings(inputs)
        cumulative_savings == Mul(monthly, inputs.time_horizon_months)
        net_savings == Sub(cumulative_savings, inputs.one_time_implementation_cost)
        payback == payback_months(inputs.one_time_implementation_cost, monthly)
        roi == roi_percentage(inputs.one_time_implementation_cost, net_savings,
                              cumulative_savings)
    IN  [monthly_savings |-> ToFixed2(monthly),
         cumulative_savings |-> ToFixed2(cumulative_savings),
         net_savings |-> ToFixed2(net_savings),
         payback_months |-> IF payback = Null THEN Null ELSE ToFixed2(payback),
         roi_percentage |-> ToFixed2(roi)]

(***************************************************************************)
(* Request bodies                                                          *)
(***************************************************************************)
NumFields ==
    {"monthly_invoice_volume", "num_ap_staff", "avg_hours_per_invoice", "hourly_wage",
     "error_rate_manual", "error_cost", "time_horizon_months",
     "one_time_implementation_cost"}

MkBody(name, miv, nas, ahi, hw, erm, ec, thm, cost) ==
    [scenario_name |-> name,
     monthly_invoice_volume |-> miv,
     num_ap_staff |-> nas,
     avg_hours_per_invoice |-> ahi,
     hourly_wage |-> hw,
     error_rate_manual |-> erm,
     error_cost |-> ec,
     time_horizon_months |-> thm,
     one_time_implementation_cost |-> cost]

\* The form's initial values.
initialInputs ==
    MkBody(NameStr(<<>>), Int2Num(2000), Int2Num(3), Rat(17, 100), Int2Num(30),
           Rat(1, 2), Int2Num(100), Int2Num(36), Int2Num(50000))

\* Number of fields of one body that carry an unusual raw value at once.
MaxOverrides == 2

\* Well-formed numeric bodies: zero, tiny, and the form's initial magnitudes.
GridBodies ==
    { MkBody(NameAbsent, Int2Num(miv), Int2Num(nas), ahi, Int2Num(hw), erm,
             Int2Num(ec), Int2Num(thm), Int2Num(cost)) :
        miv \in {0, 1, 2000}, nas \in {0, 1, 3},
        ahi \in {Int2Num(0), Rat(17, 100), Rat(1, 5)}, hw \in {0, 1, 30},
        erm \in {Int2Num(0), Rat(1, 10), Rat(1, 2), Int2Num(100)},
        ec \in {0, 1, 100}, thm \in {1, 36}, cost \in {0, 100, 50000} }

\* Unusual raw values a field may carry.
Specials(f) ==
    {Absent, JsonNull, EmptyStr, Text, Int2Num(-1)}
    \cup (IF f = "error_rate_manual" THEN {Int2Num(150), NumStr(-5, 2)} ELSE {})
    \cup (IF f = "time_horizon_months" THEN {Int2Num(0), NumStr(12, 1)} ELSE {})

Override(base, g) ==
    [f \in DOMAIN base |-> IF f \in DOMAIN g THEN g[f] ELSE base[f]]

OverrideBodies ==
    UNION { { Override(initialInputs, g) :
                g \in { h \in [S -> UNION { Specials(f) : f \in S }] :
                          \A f \in S : h[f] \in Specials(f) } } :
            S \in { T \in SUBSET NumFields : Cardinality(T) <= MaxOverrides } }

CalcBodies == GridBodies \cup OverrideBodies

NoInputs ==
    MkBody(<<>>, NaN, NaN, NaN, NaN, NaN, NaN, NaN, NaN)

NoResults ==
    [monthly_savings |-> Null, cumulative_savings |-> Null, net_savings |-> Null,
     payback_months |-> Null, roi_percentage |-> Null]

(***************************************************************************)
(* Strings (sequences of characters)                                       *)
(***************************************************************************)
RECURSIVE TrimStart(_)
TrimStart(s) == IF s # <<>> /\ Head(s) = " " THEN TrimStart(Tail(s)) ELSE s

RECURSIVE TrimEnd(_)
TrimEnd(s) ==
    IF s # <<>> /\ s[Len(s)] = " " THEN TrimEnd(SubSeq(s, 1, Len(s) - 1)) ELSE s

\* String.prototype.trim
trim(s) == TrimEnd(TrimStart(s))

DigitChar(d) ==
    CASE d = 0 -> "0" [] d = 1 -> "1" [] d = 2 -> "2" [] d = 3 -> "3" [] d = 4 -> "4"
      [] d = 5 -> "5" [] d = 6 -> "6" [] d = 7 -> "7" [] d = 8 -> "8" [] d = 9 -> "9"

\* The decimal spelling of a non-negative integer, as a template literal gives it.
RECURSIVE IntToString(_)
IntToString(n) ==
    IF n < 10 THEN <<DigitChar(n)>>
    ELSE IntToString(n \div 10) \o <<DigitChar(n % 10)>>

\* Faulty variant of defaultName: the count itself, not count + 1.
defaultName_FromCount(count) ==
    <<"S", "c", "e", "n", "a", "r", "i", "o", " ">> \o IntToString(count)

\* `Scenario ${count + 1}`
defaultName(count) ==
    <<"S", "c", "e", "n", "a", "r", "i", "o", " ">> \o IntToString(count + 1)

(***************************************************************************)
(* The scenario routes (MongoDB server)                                    *)
(***************************************************************************)
\* Ids ever generated; saves ever accepted.
MaxIds == 2
\* Latest clock reading.
MaxClock == 1

\* POST /scenarios handlers that may run at once.
Handlers == {1, 2}

\* A path or body id that is no ObjectId (findById / deleteOne throw a cast error).
MalformedId == -1
\* scenario_id missing from a report request (or falsy: "", 0, null).
NoId == 0

Q4Name == <<" ", "Q", "4", " ">>

\* Bodies the routes are driven with: the form's initial values without a name;
\* a named body whose error rate is out of range; a body with two invalid
\* fields; a body with a blank name, no volume (no savings) and a negative cost.
SrvBodies ==
    {initialInputs,
     [initialInputs EXCEPT !.scenario_name = NameStr(Q4Name),
                           !.error_rate_manual = Int2Num(150)],
     [initialInputs EXCEPT !.scenario_name = NameOther,
                           !.monthly_invoice_volume = Absent,
                           !.num_ap_staff = Int2Num(-1)],
     [initialInputs EXCEPT !.scenario_name = NameStr(<<" ">>),
                           !.monthly_invoice_volume = Int2Num(0),
                           !.one_time_implementation_cost = Int2Num(-1)]}

\* POST /scenarios bodies: {inputs: <fields>} as the form sends it, or flat.
SaveRequests ==
    { [inputs |-> b] : b \in SrvBodies } \cup {initialInputs}

\* req.body?.inputs || req.body || {}
resolveBody(reqBody) ==
    IF "inputs" \in DOMAIN reqBody THEN reqBody.inputs ELSE reqBody

NoResponse ==
    [op |-> "none", status |-> 0, reqBody |-> initialInputs, reqId |-> NoId,
     id |-> NoId, scenario_name |-> <<>>, inputs |-> NoInputs, results |-> NoResults,
     created_at |-> 0, errors |-> <<>>, list |-> <<>>, email |-> <<>>]

Response(op, status) == [NoResponse EXCEPT !.op = op, !.status = status]

\* Faulty variant of validationFailure: only the first message is sent.
validationFailure_FirstOnly(op, body, errors) ==
    [Response(op, 400) EXCEPT !.reqBody = body, !.errors = <<Head(errors)>>]

\* res.status(400).json({ errors })
validationFailure(op, body, errors) ==
    [Response(op, 400) EXCEPT !.reqBody = body, !.errors = errors]

\* Faulty variant of newScenario: the validated inputs are not spread into the
\* stored inputs.
newScenario_InputsNotSpread(scenarioName, inputs, results) ==
    [scenario_name |-> scenarioName,
     inputs |-> [NoInputs EXCEPT !.scenario_name = scenarioName],
     results |-> results]

\* The document handed to Scenario.create (line 135).
newScenario(scenarioName, inputs, results) ==
    [scenario_name |-> scenarioName,
     inputs |-> [inputs EXCEPT !.scenario_name = scenarioName],
     results |-> results]

\* Faulty variant of findById: the filter is dropped, every document matches.
findById_NoFilter(id) == store

\* Scenario.findById: the documents with that id (none for a malformed id).
findById(id) == SelectSeq(store, LAMBDA d : d.id = id)

\* The ids of the scenarios in the store.
StoredIds == { store[i].id : i \in DOMAIN store }

\* Bodies the form can send: the initial values with staff 3 or -1, months
\* 36, 0 or 12, and no name or the default name of a loaded scenario.
UiBodies ==
    { [initialInputs EXCEPT !.scenario_name = name,
                            !.num_ap_staff = Int2Num(staff),
                            !.time_horizon_months = Int2Num(months)] :
        name \in {NameStr(<<>>)} \cup { NameStr(defaultName(n)) : n \in 0..MaxIds },
        staff \in {3, -1},
        months \in {36, 0, 12} }

\* validateInputs and simulate on the bodies the routes are driven with,
\* tabulated once.
validated == [b \in SrvBodies \cup UiBodies |-> validateInputs(b)]
simulated == [b \in SrvBodies \cup UiBodies |->
                 IF Len(validated[b].errors) > 0 THEN NoResults
                 ELSE simulate(validated[b].inputs)]

Idle ==
    [pc |-> "idle", reqBody |-> initialInputs, inputs |-> NoInputs,
     results |-> NoResults, scenarioName |-> <<>>, seen |-> {}]

Pending == { h \in Handlers : inflight[h].pc # "idle" }

SrvInit ==
    /\ store = <<>>
    /\ nextId = 1
    /\ clock = 0
    /\ inflight = [h \in Handlers |-> Idle]
    /\ saved = <<>>
    /\ resp = NoResponse

\* Faulty variant of Simulate: the results of the last saved scenario are kept
\* and answered again.
Simulate_KeptResults(body) ==
    /\ LET v == validated[body]
       IN  resp' = IF Len(v.errors) > 0
                   THEN validationFailure("simulate", body, v.errors)
                   ELSE [Response("simulate", 200) EXCEPT !.reqBody = body,
                            !.results = IF store = <<>> THEN simulated[body]
                                        ELSE store[Len(store)].results]
    /\ UNCHANGED <<store, nextId, clock, inflight, saved>>

\* POST /simulate
Simulate(body) ==
    /\ LET v == validated[body]
       IN  resp' = IF Len(v.errors) > 0
                   THEN validationFailure("simulate", body, v.errors)
                   ELSE [Response("simulate", 200) EXCEPT !.reqBody = body,
                                                         !.results = simulated[body]]
    /\ UNCHANGED <<store, nextId, clock, inflight, saved>>

\* POST /scenarios up to its first await: validate, calculate, resolve the name.
\* A request is served by the first idle handler.
SaveBegin(h, reqBody) ==
    LET body == resolveBody(reqBody)
        v == validated[body]
    IN  /\ inflight[h].pc = "idle"
        /\ \A g \in Handlers : g < h => inflight[g].pc # "idle"
        /\ IF Len(v.errors) > 0
           THEN /\ resp' = validationFailure("save", body, v.errors)
                /\ UNCHANGED <<store, nextId, clock, inflight, saved>>
           ELSE LET results == simulated[body]
                    scenarioName == trim(v.inputs.scenario_name)
                IN  /\ inflight' = [inflight EXCEPT ![h] =
                           [pc |-> IF scenarioName = <<>> THEN "count" ELSE "create",
                            reqBody |-> body,
                            inputs |-> v.inputs,
                            results |-> results,
                            scenarioName |-> scenarioName,
                            seen |-> {}]]
                    /\ UNCHANGED <<store, nextId, clock, saved, resp>>

\* Faulty variant of SaveCount: the count is not read, it is taken as 0.
SaveCount_NotRead(h) ==
    /\ inflight[h].pc = "count"
    /\ inflight' = [inflight EXCEPT ![h].scenarioName = defaultName(0),
                                    ![h].seen = StoredIds,
                                    ![h].pc = "create"]
    /\ UNCHANGED <<store, nextId, clock, saved, resp>>

\* await Scenario.countDocuments(), then the default name.  seen keeps the ids
\* of the scenarios that were counted (history only).
SaveCount(h) ==
    /\ inflight[h].pc = "count"
    /\ inflight' = [inflight EXCEPT ![h].scenarioName = defaultName(Len(store)),
                                    ![h].seen = StoredIds,
                                    ![h].pc = "create"]
    /\ UNCHANGED <<store, nextId, clock, saved, resp>>

\* Faulty variant of SaveCreate: a stored scenario with the same name is
\* overwritten instead of a new one being inserted.
SaveCreate_UpsertByName(h) ==
    /\ inflight[h].pc = "create"
    /\ \E now \in {clock, clock + 1} :
          /\ now <= MaxClock
          /\ clock' = now
          /\ LET e == inflight[h]
                 doc == newScenario(e.scenarioName, e.inputs, e.results)
                 same == { i \in DOMAIN store : store[i].scenario_name = doc.scenario_name }
                 new == [id |-> nextId, scenario_name |-> doc.scenario_name,
                         inputs |-> doc.inputs, results |-> doc.results,
                         created_at |-> now]
             IN  /\ store' = IF same = {} THEN Append(store, new)
                              ELSE [i \in DOMAIN store |->
                                       IF i \in same THEN new ELSE store[i]]
                 /\ saved' = (nextId :> [inputs |-> e.inputs, results |-> e.results,
                                         seen |-> e.seen])
                                 @@ saved
                 /\ resp' = [Response("save", 200) EXCEPT !.reqBody = e.reqBody,
                                                         !.id = nextId,
                                                         !.scenario_name = doc.scenario_name]
    /\ nextId' = nextId + 1
    /\ inflight' = [inflight EXCEPT ![h] = Idle]

\* await Scenario.create(...), then the 200 response.  The document's
\* created_at is the clock's reading now: the latest reading or a later one.
SaveCreate(h) ==
    /\ inflight[h].pc = "create"
    /\ \E now \in {clock, clock + 1} :
          /\ now <= MaxClock
          /\ clock' = now
          /\ LET e == inflight[h]
                 doc == newScenario(e.scenarioName, e.inputs, e.results)
             IN  /\ store' = Append(store,
                        [id |-> nextId, scenario_name |-> doc.scenario_name,
                         inputs |-> doc.inputs, results |-> doc.results,
                         created_at |-> now])
                 /\ saved' = (nextId :> [inputs |-> e.inputs, results |-> e.results,
                                         seen |-> e.seen])
                                 @@ saved
                 /\ resp' = [Response("save", 200) EXCEPT !.reqBody = e.reqBody,
                                                         !.id = nextId,
                                                         !.scenario_name = doc.scenario_name]
    /\ nextId' = nextId + 1
    /\ inflight' = [inflight EXCEPT ![h] = Idle]

\* The store throws at either await: 500, nothing persisted.
SaveFail(h) ==
    /\ inflight[h].pc # "idle"
    /\ resp' = [Response("save", 500) EXCEPT !.reqBody = inflight[h].reqBody]
    /\ inflight' = [inflight EXCEPT ![h] = Idle]
    /\ UNCHANGED <<store, nextId, clock, saved>>

\* Orders of the documents that sort({created_at: -1}) may return.
newestFirst ==
    { p \in [1..Len(store) -> 1..Len(store)] :
        /\ \A i, j \in 1..Len(store) : i # j => p[i] # p[j]
        /\ \A i, j \in 1..Len(store) :
              i < j => store[p[i]].created_at >= store[p[j]].created_at }

\* GET /scenarios
List ==
    /\ \E p \in newestFirst :
          resp' = [Response("list", 200) EXCEPT !.list =
                      [i \in 1..Len(store) |->
                          [id |-> store[p[i]].id,
                           scenario_name |-> store[p[i]].scenario_name,
                           created_at |-> store[p[i]].created_at]]]
    /\ UNCHANGED <<store, nextId, clock, inflight, saved>>

\* GET /scenarios/:id
Get(id) ==
    /\ LET docs == findById(id)
       IN  resp' = IF docs = <<>>
                   THEN [Response("get", 404) EXCEPT !.reqId = id]
                   ELSE [Response("get", 200) EXCEPT !.reqId = id,
                            !.id = docs[1].id,
                            !.scenario_name = docs[1].scenario_name,
                            !.inputs = docs[1].inputs,
                            !.results = docs[1].results,
                            !.created_at = docs[1].created_at]
    /\ UNCHANGED <<store, nextId, clock, inflight, saved>>

\* Faulty variant of Delete: the deleted count is not looked at.
Delete_CountIgnored(id) ==
    /\ store' = SelectSeq(store, LAMBDA d : d.id # id)
    /\ saved' = [i \in DOMAIN saved \ {id} |-> saved[i]]
    /\ resp' = [Response("delete", 200) EXCEPT !.reqId = id]
    /\ UNCHANGED <<nextId, clock, inflight>>

\* DELETE /scenarios/:id
Delete(id) ==
    /\ store' = SelectSeq(store, LAMBDA d : d.id # id)
    /\ saved' = [i \in DOMAIN saved \ {id} |-> saved[i]]
    /\ resp' = IF findById(id) = <<>>
               THEN [Response("delete", 404) EXCEPT !.reqId = id]
               ELSE [Response("delete", 200) EXCEPT !.reqId = id]
    /\ UNCHANGED <<nextId, clock, inflight>>

\* Faulty variant of Report: inputs in the body take precedence over
\* scenario_id.
Report_InputsFirst(r) ==
    /\ LET e == IF r.email.k = "str" /\ r.email.s # <<>> THEN trim(r.email.s) ELSE <<>>
           docs == findById(r.scenario_id)
           v == validated[r.inputs]
       IN  resp' =
             IF e = <<>> THEN Response("report", 400)
             ELSE IF r.withInputs THEN
                 IF Len(v.errors) > 0
                 THEN validationFailure("report", r.inputs, v.errors)
                 ELSE [Response("report", 200) EXCEPT !.reqBody = r.inputs, !.email = e,
                          !.inputs = v.inputs, !.results = simulated[r.inputs]]
             ELSE IF r.scenario_id # NoId THEN
                 IF docs = <<>>
                 THEN [Response("report", 404) EXCEPT !.reqId = r.scenario_id]
                 ELSE [Response("report", 200) EXCEPT !.reqId = r.scenario_id, !.email = e,
                          !.inputs = docs[1].inputs, !.results = docs[1].results]
             ELSE Response("report", 400)
    /\ UNCHANGED <<store, nextId, clock, inflight, saved>>

\* POST /report/generate on the body {email, scenario_id, inputs}: scenario_id
\* is NoId when missing, withInputs tells whether the body carries inputs.  The
\* response stands for the HTML document by the email, inputs and results it
\* embeds; the time-stamped file name is left out.
Report(r) ==
    /\ LET email == r.email
           id == r.scenario_id
           withInputs == r.withInputs
           body == r.inputs
           e == IF email.k = "str" /\ email.s # <<>> THEN trim(email.s) ELSE <<>>
           docs == findById(id)
           v == validated[body]
       IN  resp' =
             IF e = <<>> THEN Response("report", 400)
             ELSE IF id # NoId THEN
                 IF docs = <<>>
                 THEN [Response("report", 404) EXCEPT !.reqId = id]
                 ELSE [Response("report", 200) EXCEPT !.reqId = id, !.email = e,
                          !.inputs = docs[1].inputs, !.results = docs[1].results]
             ELSE IF withInputs THEN
                 IF Len(v.errors) > 0
                 THEN validationFailure("report", body, v.errors)
                 ELSE [Response("report", 200) EXCEPT !.reqBody = body, !.email = e,
                          !.inputs = v.inputs, !.results = simulated[body]]
             ELSE Response("report", 400)
    /\ UNCHANGED <<store, nextId, clock, inflight, saved>>

RequestIds == {MalformedId} \cup (1..MaxIds)

GoodEmail == NameStr(<<"a", "@", "b">>)

ReportRequest(email, id, withInputs, body) ==
    [email |-> email, scenario_id |-> id, withInputs |-> withInputs, inputs |-> body]

\* Report bodies: without a usable email; with a scenario_id; with inputs; with
\* both; with neither.
ReportRequests ==
    { ReportRequest(e, 1, TRUE, initialInputs) : e \in {NameAbsent, NameStr(<<" ">>)} }
    \cup { ReportRequest(GoodEmail, id, FALSE, initialInputs) : id \in RequestIds }
    \cup { ReportRequest(GoodEmail, NoId, TRUE, b) : b \in SrvBodies }
    \cup { ReportRequest(GoodEmail, id, TRUE, b) : id \in {1}, b \in SrvBodies }
    \cup { ReportRequest(GoodEmail, NoId, FALSE, initialInputs) }

(***************************************************************************)
(* The scenario routes (PostgreSQL server).  validateInputs and simulate   *)
(* are the same functions, repeated in that server's source.               *)
(***************************************************************************)
\* SELECT ... FROM scenarios WHERE id = $1: the rows with that id (the query
\* throws for an id that is no UUID, which the handlers answer like no row).
pgSelectById(id) == SelectSeq(pgStore, LAMBDA d : d.id = id)

\* The row inserted by POST /scenarios (lines 397-403).
pgNewRow(id, scenarioName, inputs, results, now) ==
    [id |-> id, scenario_name |-> scenarioName,
     inputs |-> [inputs EXCEPT !.scenario_name = scenarioName],
     results |-> results, created_at |-> now]

PgInit ==
    /\ pgStore = <<>>
    /\ pgNextId = 1
    /\ pgClock = 0
    /\ pgInflight = Idle
    /\ pgResp = NoResponse

\* POST /simulate
PgSimulate(body) ==
    /\ LET v == validated[body]
       IN  pgResp' = IF Len(v.errors) > 0
                     THEN validationFailure("simulate", body, v.errors)
                     ELSE [Response("simulate", 200) EXCEPT !.reqBody = body,
                                                           !.results = simulated[body]]
    /\ UNCHANGED <<pgStore, pgNextId, pgClock, pgInflight>>

\* POST /scenarios up to its first await.
PgSaveBegin(reqBody) ==
    LET body == resolveBody(reqBody)
        v == validated[body]
    IN  /\ pgInflight.pc = "idle"
        /\ IF Len(v.errors) > 0
           THEN /\ pgResp' = validationFailure("save", body, v.errors)
                /\ UNCHANGED <<pgStore, pgNextId, pgClock, pgInflight>>
           ELSE LET scenarioName == trim(v.inputs.scenario_name)
                IN  /\ pgInflight' =
                           [pc |-> IF scenarioName = <<>> THEN "count" ELSE "create",
                            reqBody |-> body,
                            inputs |-> v.inputs,
                            results |-> simulated[body],
                            scenarioName |-> scenarioName,
                            seen |-> {}]
                    /\ UNCHANGED <<pgStore, pgNextId, pgClock, pgResp>>

\* await pool.query('SELECT COUNT(1) AS c FROM scenarios'), then the default
\* name.
PgSaveCount ==
    /\ pgInflight.pc = "count"
    /\ pgInflight' = [pgInflight EXCEPT !.scenarioName = defaultName(Len(pgStore)),
                                        !.pc = "create"]
    /\ UNCHANGED <<pgStore, pgNextId, pgClock, pgResp>>

\* id = uuidv4(), now = new Date(), await the INSERT, then the 200 response.
PgSaveInsert ==
    /\ pgInflight.pc = "create"
    /\ \E now \in {pgClock, pgClock + 1} :
          /\ now <= MaxClock
          /\ pgClock' = now
          /\ LET e == pgInflight
             IN  /\ pgStore' = Append(pgStore,
                        pgNewRow(pgNextId, e.scenarioName, e.inputs, e.results, now))
                 /\ pgResp' = [Response("save", 200) EXCEPT !.reqBody = e.reqBody,
                                                           !.id = pgNextId,
                                                           !.scenario_name = e.scenarioName]
    /\ pgNextId' = pgNextId + 1
    /\ pgInflight' = Idle

\* Orders of the rows that ORDER BY created_at DESC may return.
pgNewestFirst ==
    { p \in [1..Len(pgStore) -> 1..Len(pgStore)] :
        /\ \A i, j \in 1..Len(pgStore) : i # j => p[i] # p[j]
        /\ \A i, j \in 1..Len(pgStore) :
              i < j => pgStore[p[i]].created_at >= pgStore[p[j]].created_at }

\* GET /scenarios
PgList ==
    /\ \E p \in pgNewestFirst :
          pgResp' = [Response("list", 200) EXCEPT !.list =
                        [i \in 1..Len(pgStore) |->
                            [id |-> pgStore[p[i]].id,
                             scenario_name |-> pgStore[p[i]].scenario_name,
                             created_at |-> pgStore[p[i]].created_at]]]
    /\ UNCHANGED <<pgStore, pgNextId, pgClock, pgInflight>>

\* GET /scenarios/:id
PgGet(id) ==
    /\ LET rows == pgSelectById(id)
       IN  pgResp' = IF rows = <<>>
                     THEN [Response("get", 404) EXCEPT !.reqId = id]
                     ELSE [Response("get", 200) EXCEPT !.reqId = id,
                              !.id = rows[1].id,
                              !.scenario_name = rows[1].scenario_name,
                              !.inputs = rows[1].inputs,
                              !.results = rows[1].results,
                              !.created_at = rows[1].created_at]
    /\ UNCHANGED <<pgStore, pgNextId, pgClock, pgInflight>>

\* DELETE /scenarios/:id
PgDelete(id) ==
    /\ pgStore' = SelectSeq(pgStore, LAMBDA d : d.id # id)
    /\ pgResp' = IF pgSelectById(id) = <<>>
                 THEN [Response("delete", 404) EXCEPT !.reqId = id]
                 ELSE [Response("delete", 200) EXCEPT !.reqId = id]
    /\ UNCHANGED <<pgNextId, pgClock, pgInflight>>

\* POST /report/generate
PgReport(r) ==
    /\ LET e == IF r.email.k = "str" /\ r.email.s # <<>> THEN trim(r.email.s) ELSE <<>>
           rows == pgSelectById(r.scenario_id)
           v == validated[r.inputs]
       IN  pgResp' =
             IF e = <<>> THEN Response("report", 400)
             ELSE IF r.scenario_id # NoId THEN
                 IF rows = <<>>
                 THEN [Response("report", 404) EXCEPT !.reqId = r.scenario_id]
                 ELSE [Response("report", 200) EXCEPT !.reqId = r.scenario_id,
                          !.email = e,
                          !.inputs = rows[1].inputs, !.results = rows[1].results]
             ELSE IF r.withInputs THEN
                 IF Len(v.errors) > 0
                 THEN validationFailure("report", r.inputs, v.errors)
                 ELSE [Response("report", 200) EXCEPT !.reqBody = r.inputs, !.email = e,
                          !.inputs = v.inputs, !.results = simulated[r.inputs]]
             ELSE Response("report", 400)
    /\ UNCHANGED <<pgStore, pgNextId, pgClock, pgInflight>>

(***************************************************************************)
(* Requests of the side-by-side run                                        *)
(***************************************************************************)
NoRequest ==
    [op |-> "none", body |-> initialInputs, id |-> NoId,
     r |-> ReportRequest(NameAbsent, NoId, FALSE, initialInputs)]

Request(op) == [NoRequest EXCEPT !.op = op]

RunInit ==
    /\ phase = "idle"
    /\ req = NoRequest

\* No save or load in progress.
NoFetch == [pc |-> "idle", id |-> NoId, answer |-> NoResponse]

\* The form as first rendered (useState), before its effects have run.
UiInit ==
    /\ uiInputs = initialInputs
    /\ uiResults = NoResults
    /\ uiRuns = <<>>
    /\ uiBusy = NoFetch

Init ==
    /\ SrvInit
    /\ PgInit
    /\ RunInit
    /\ UiInit
    /\ cBody = initialInputs
    /\ cPc = "start"
    /\ cOut = [inputs |-> NoInputs, errors |-> <<>>, results |-> NoResults]

Next ==
    \/ \E body \in SrvBodies : Simulate(body) /\ UNCHANGED sideVars
    \/ \E h \in Handlers, reqBody \in SaveRequests :
          /\ nextId + Cardinality(Pending) <= MaxIds
          /\ SaveBegin(h, reqBody)
          /\ UNCHANGED sideVars
    \/ \E h \in Handlers : SaveCount(h) /\ UNCHANGED sideVars
    \/ \E h \in Handlers : SaveCreate(h) /\ UNCHANGED sideVars
    \/ \E h \in Handlers : SaveFail(h) /\ UNCHANGED sideVars
    \/ List /\ UNCHANGED sideVars
    \/ \E id \in RequestIds : Get(id) /\ UNCHANGED sideVars
    \/ \E id \in RequestIds : Delete(id) /\ UNCHANGED sideVars
    \/ \E r \in ReportRequests : Report(r) /\ UNCHANGED sideVars

Spec == Init /\ [][Next]_vars

(***************************************************************************)
(* Saves and deletes only, with and without a name, over more ids.         *)
(***************************************************************************)
\* Ids ever generated in the runs of saves and deletes.
MaxNameIds == 3

\* An unnamed body and a named one.
NameBodies ==
    {initialInputs,
     [initialInputs EXCEPT !.scenario_name = NameStr(Q4Name),
                           !.error_rate_manual = Int2Num(150)]}

NamesNext ==
    \/ \E h \in Handlers, b \in NameBodies :
          /\ nextId + Cardinality(Pending) <= MaxNameIds
          /\ SaveBegin(h, [inputs |-> b])
          /\ UNCHANGED sideVars
    \/ \E h \in Handlers : SaveCount(h) /\ UNCHANGED sideVars
    \/ \E h \in Handlers : SaveCreate(h) /\ UNCHANGED sideVars
    \/ \E id \in 1..MaxNameIds : Delete(id) /\ UNCHANGED sideVars

SpecNames == Init /\ [][NamesNext]_vars

(***************************************************************************)
(* The two servers side by side: each request is sent to both, handled by  *)
(* the MongoDB server, then by the PostgreSQL server, and the next request *)
(* follows when both have answered.  The stores do not fail.               *)
(***************************************************************************)
BothRequests ==
    { [Request("simulate") EXCEPT !.body = b] : b \in SrvBodies }
    \cup { [Request("save") EXCEPT !.body = b] : b \in SrvBodies }
    \cup { Request("list") }
    \cup { [Request("get") EXCEPT !.id = id] : id \in RequestIds }
    \cup { [Request("delete") EXCEPT !.id = id] : id \in RequestIds }
    \cup { [Request("report") EXCEPT !.r = r] : r \in ReportRequests }

Send(r) ==
    /\ phase = "idle"
    /\ r.op = "save" => nextId <= MaxIds
    /\ req' = r
    /\ phase' = "mongo"
    /\ UNCHANGED <<srvVars, calcVars, pgVars, uiVars>>

MongoSimulate ==
    /\ phase = "mongo" /\ req.op = "simulate"
    /\ Simulate(req.body)
    /\ phase' = "pg"
    /\ UNCHANGED <<calcVars, uiVars, pgVars, req>>

MongoSaveBegin ==
    /\ phase = "mongo" /\ req.op = "save"
    /\ SaveBegin(1, [inputs |-> req.body])
    /\ phase' = IF inflight'[1].pc = "idle" THEN "pg" ELSE "mongo"
    /\ UNCHANGED <<calcVars, uiVars, pgVars, req>>

MongoSaveCount ==
    /\ phase = "mongo"
    /\ SaveCount(1)
    /\ UNCHANGED <<calcVars, uiVars, pgVars, phase, req>>

MongoSaveCreate ==
    /\ phase = "mongo"
    /\ SaveCreate(1)
    /\ phase' = "pg"
    /\ UNCHANGED <<calcVars, uiVars, pgVars, req>>

MongoList ==
    /\ phase = "mongo" /\ req.op = "list"
    /\ List
    /\ phase' = "pg"
    /\ UNCHANGED <<calcVars, uiVars, pgVars, req>>

MongoGet ==
    /\ phase = "mongo" /\ req.op = "get"
    /\ Get(req.id)
    /\ phase' = "pg"
    /\ UNCHANGED <<calcVars, uiVars, pgVars, req>>

MongoDelete ==
    /\ phase = "mongo" /\ req.op = "delete"
    /\ Delete(req.id)
    /\ phase' = "pg"
    /\ UNCHANGED <<calcVars, uiVars, pgVars, req>>

MongoReport ==
    /\ phase = "mongo" /\ req.op = "report"
    /\ Report(req.r)
    /\ phase' = "pg"
    /\ UNCHANGED <<calcVars, uiVars, pgVars, req>>

PostgresSimulate ==
    /\ phase = "pg" /\ req.op = "simulate"
    /\ PgSimulate(req.body)
    /\ phase' = "idle"
    /\ UNCHANGED <<calcVars, uiVars, srvVars, req>>

PostgresSaveBegin ==
    /\ phase = "pg" /\ req.op = "save"
    /\ PgSaveBegin([inputs |-> req.body])
    /\ phase' = IF pgInflight'.pc = "idle" THEN "idle" ELSE "pg"
    /\ UNCHANGED <<calcVars, uiVars, srvVars, req>>

PostgresSaveCount ==
    /\ phase = "pg"
    /\ PgSaveCount
    /\ UNCHANGED <<calcVars, uiVars, srvVars, phase, req>>

PostgresSaveInsert ==
    /\ phase = "pg"
    /\ PgSaveInsert
    /\ phase' = "idle"
    /\ UNCHANGED <<calcVars, uiVars, srvVars, req>>

PostgresList ==
    /\ phase = "pg" /\ req.op = "list"
    /\ PgList
    /\ phase' = "idle"
    /\ UNCHANGED <<calcVars, uiVars, srvVars, req>>

PostgresGet ==
    /\ phase = "pg" /\ req.op = "get"
    /\ PgGet(req.id)
    /\ phase' = "idle"
    /\ UNCHANGED <<calcVars, uiVars, srvVars, req>>

PostgresDelete ==
    /\ phase = "pg" /\ req.op = "delete"
    /\ PgDelete(req.id)
    /\ phase' = "idle"
    /\ UNCHANGED <<calcVars, uiVars, srvVars, req>>

PostgresReport ==
    /\ phase = "pg" /\ req.op = "report"
    /\ PgReport(req.r)
    /\ phase' = "idle"
    /\ UNCHANGED <<calcVars, uiVars, srvVars, req>>

BothNext ==
    \/ \E r \in BothRequests : Send(r)
    \/ MongoSimulate
    \/ MongoSaveBegin
    \/ MongoSaveCount
    \/ MongoSaveCreate
    \/ MongoList
    \/ MongoGet
    \/ MongoDelete
    \/ MongoReport
    \/ PostgresSimulate
    \/ PostgresSaveBegin
    \/ PostgresSaveCount
    \/ PostgresSaveInsert
    \/ PostgresList
    \/ PostgresGet
    \/ PostgresDelete
    \/ PostgresReport

SpecBoth == Init /\ [][BothNext]_vars

(***************************************************************************)
(* The form (src/App.js) in front of the MongoDB server: input edits, the  *)
(* live-simulate effect with its AbortController, save and load.           *)
(***************************************************************************)
\* Runs of the live-simulate effect (one /simulate request each).
MaxRuns == 3

\* number(value) of App.js: Number(value) if finite, else 0.
number(value) ==
    LET n == ToNumber(value) IN IF IsFinite(n) THEN n ELSE Int2Num(0)

\* Edits of the form: the months field cleared, the months field set to 12,
\* the staff field set to -1.
UiEdits ==
    {<<"time_horizon_months", EmptyStr>>,
     <<"time_horizon_months", NumStr(12, 1)>>,
     <<"num_ap_staff", NumStr(-1, 1)>>}

\* JSON.stringify(inputs) of inputs loaded from a scenario: the name is a string.
asBody(inputs) == [inputs EXCEPT !.scenario_name = NameStr(@)]

\* One run of the effect: the request it sent, where the request stands
\* ("sent", "answered", "done"), the answer, and whether its controller was
\* aborted.
NewRun(body) == [pc |-> "sent", body |-> body, answer |-> NoResponse, aborted |-> FALSE]

\* The effect's cleanup and next run when inputs change: the previous run's
\* controller is aborted, a request for the new inputs is sent.
rerun(runs, body) ==
    Append([i \in DOMAIN runs |->
               IF i = Len(runs) THEN [runs[i] EXCEPT !.aborted = TRUE] ELSE runs[i]],
           NewRun(body))

\* First render: the effect runs for the initial inputs.
UiMount ==
    /\ uiRuns = <<>>
    /\ uiRuns' = <<NewRun(uiInputs)>>
    /\ UNCHANGED <<uiInputs, uiResults, uiBusy, srvVars>>

\* onChange on a numeric field, and the effect's rerun it causes.
UiEdit(name, value) ==
    /\ uiRuns # <<>>
    /\ Len(uiRuns) < MaxRuns
    /\ uiInputs' = [uiInputs EXCEPT ![name] = number(value)]
    /\ uiRuns' = rerun(uiRuns, uiInputs')
    /\ UNCHANGED <<uiResults, uiBusy, srvVars>>

\* The server handles the /simulate request of run n (aborted or not, it
\* cannot tell) and the response reaches the browser.
UiSimulateServed(n) ==
    /\ uiRuns[n].pc = "sent"
    /\ Simulate(uiRuns[n].body)
    /\ uiRuns' = [uiRuns EXCEPT ![n].pc = "answered", ![n].answer = resp']
    /\ UNCHANGED <<uiInputs, uiResults, uiBusy>>

\* The rest of run n (lines 48-51): an aborted fetch throws and is caught, a
\* response that is not ok is dropped, otherwise setResults(data).
UiSimulateSettled(n) ==
    /\ uiRuns[n].pc = "answered"
    /\ uiRuns' = [uiRuns EXCEPT ![n].pc = "done"]
    /\ uiResults' = IF ~uiRuns[n].aborted /\ uiRuns[n].answer.status = 200
                    THEN uiRuns[n].answer.results
                    ELSE uiResults
    /\ UNCHANGED <<uiInputs, uiBusy, srvVars>>

\* saveScenario: POST /scenarios {inputs}, handled by the server's handler 1.
UiSave ==
    /\ uiRuns # <<>>
    /\ uiBusy.pc = "idle"
    /\ nextId <= MaxIds
    /\ SaveBegin(1, [inputs |-> uiInputs])
    /\ uiBusy' = [NoFetch EXCEPT !.pc = "saving"]
    /\ UNCHANGED <<uiInputs, uiResults, uiRuns>>

UiSaveCount ==
    /\ SaveCount(1)
    /\ UNCHANGED <<uiInputs, uiResults, uiRuns, uiBusy>>

UiSaveCreate ==
    /\ SaveCreate(1)
    /\ UNCHANGED <<uiInputs, uiResults, uiRuns, uiBusy>>

\* The save's response arrived (and the list was fetched again): loading ends.
UiSaveSettled ==
    /\ uiBusy.pc = "saving"
    /\ inflight[1].pc = "idle"
    /\ uiBusy' = NoFetch
    /\ UNCHANGED <<uiInputs, uiResults, uiRuns, srvVars>>

\* loadScenario(id) on a listed scenario: GET /scenarios/:id is sent.
UiLoad(id) ==
    /\ uiRuns # <<>>
    /\ uiBusy.pc = "idle"
    /\ id \in StoredIds
    /\ uiBusy' = [NoFetch EXCEPT !.pc = "loading", !.id = id]
    /\ UNCHANGED <<uiInputs, uiResults, uiRuns, srvVars>>

UiLoadServed ==
    /\ uiBusy.pc = "loading"
    /\ Get(uiBusy.id)
    /\ uiBusy' = [uiBusy EXCEPT !.pc = "loaded", !.answer = resp']
    /\ UNCHANGED <<uiInputs, uiResults, uiRuns>>

\* The rest of loadScenario (lines 85-90): setInputs(s.inputs),
\* setResults(s.results), and the effect's rerun for the loaded inputs.
UiLoadSettled ==
    /\ uiBusy.pc = "loaded"
    /\ uiBusy' = NoFetch
    /\ IF uiBusy.answer.status = 200
       THEN /\ Len(uiRuns) < MaxRuns
            /\ uiInputs' = asBody(uiBusy.answer.inputs)
            /\ uiResults' = uiBusy.answer.results
            /\ uiRuns' = rerun(uiRuns, uiInputs')
       ELSE UNCHANGED <<uiInputs, uiResults, uiRuns>>
    /\ UNCHANGED srvVars

UiNext ==
    \/ UiMount /\ UNCHANGED otherVars
    \/ \E e \in UiEdits : UiEdit(e[1], e[2]) /\ UNCHANGED otherVars
    \/ \E n \in 1..MaxRuns : n <= Len(uiRuns) /\ UiSimulateServed(n) /\ UNCHANGED otherVars
    \/ \E n \in 1..MaxRuns : n <= Len(uiRuns) /\ UiSimulateSettled(n) /\ UNCHANGED otherVars
    \/ UiSave /\ UNCHANGED otherVars
    \/ UiSaveCount /\ UNCHANGED otherVars
    \/ UiSaveCreate /\ UNCHANGED otherVars
    \/ UiSaveSettled /\ UNCHANGED otherVars
    \/ \E id \in 1..MaxIds : UiLoad(id) /\ UNCHANGED otherVars
    \/ UiLoadServed /\ UNCHANGED otherVars
    \/ UiLoadSettled /\ UNCHANGED otherVars

SpecUI == Init /\ [][UiNext]_vars

(***************************************************************************)
(* POST /simulate on one body, in its two steps: validate, then calculate. *)
(***************************************************************************)
CalcInit ==
    /\ SrvInit
    /\ PgInit
    /\ RunInit
    /\ UiInit
    /\ cBody \in CalcBodies
    /\ cPc = "start"
    /\ cOut = [inputs |-> NoInputs, errors |-> <<>>, results |-> NoResults]

Validate ==
    /\ cPc = "start"
    /\ LET v == validateInputs(cBody)
       IN  /\ cOut' = [cOut EXCEPT !.inputs = v.inputs, !.errors = v.errors]
           /\ cPc' = IF Len(v.errors) > 0 THEN "rejected" ELSE "validated"
    /\ UNCHANGED <<cBody, srvVars, pgVars, runVars, uiVars>>

Calculate ==
    /\ cPc = "validated"
    /\ cOut' = [cOut EXCEPT !.results = simulate(cOut.inputs)]
    /\ cPc' = "calculated"
    /\ UNCHANGED <<cBody, srvVars, pgVars, runVars, uiVars>>

CalcNext == Validate \/ Calculate

SpecCalc == CalcInit /\ [][CalcNext]_vars

(***************************************************************************)
(* Properties of the validator and the calculator (under SpecCalc)         *)
(***************************************************************************)
Range(seq) == { seq[i] : i \in DOMAIN seq }

Zero == Int2Num(0)

\* x rounded to 2 decimals, ties away from zero, stated on its own.
Round2(x) ==
    LET whole == Abs(x.n) \div x.d
        rest == Abs(x.n) % x.d
        halves == (200 * rest) \div x.d
        m == 100 * whole + (halves + 1) \div 2
    IN  Rat(IF x.n < 0 THEN -m ELSE m, 100)

Accepted == cPc \in {"validated", "calculated"}
Validated == cPc # "start"
Calculated == cPc = "calculated"

\* The closed forms of section 4.2, with the constants written out.
SpecMonthly(i) ==
    Mul(Sub(Add(Mul(Mul(Mul(i.num_ap_staff, i.hourly_wage), i.avg_hours_per_invoice),
                    i.monthly_invoice_volume),
                Div(Mul(Mul(Sub(i.error_rate_manual, Rat(1, 10)), i.monthly_invoice_volume),
                        i.error_cost), Int2Num(100))),
            Mul(i.monthly_invoice_volume, Rat(1, 5))),
        Rat(11, 10))
SpecCumulative(i) == Mul(SpecMonthly(i), i.time_horizon_months)
SpecNet(i) == Sub(SpecCumulative(i), i.one_time_implementation_cost)

WellFormed(i) ==
    /\ \A f \in {"monthly_invoice_volume", "num_ap_staff", "avg_hours_per_invoice",
                 "hourly_wage", "error_cost", "one_time_implementation_cost"} :
          Le(Zero, i[f])
    /\ Le(Zero, i.error_rate_manual) /\ Le(i.error_rate_manual, Int2Num(100))
    /\ Gt(i.time_horizon_months, Zero)

\* C3: for every well-formed input, calculate returns the closed-form monthly,
\* cumulative and net savings and (for a positive cost) ROI, each computed from
\* unrounded intermediates and rounded to 2 decimals on output; the canonical
\* input gives 34100.00, 1227600.00, 1177600.00, payback 1.47 and ROI 2355.20.
C3_Formulas ==
    (Calculated /\ WellFormed(cOut.inputs)) =>
        LET i == cOut.inputs
            r == cOut.results
        IN  /\ r.monthly_savings = Round2(SpecMonthly(i))
            /\ r.cumulative_savings = Round2(SpecCumulative(i))
            /\ r.net_savings = Round2(SpecNet(i))
            /\ Gt(i.one_time_implementation_cost, Zero) =>
                  r.roi_percentage =
                      Round2(Mul(Div(SpecNet(i), i.one_time_implementation_cost),
                                 Int2Num(100)))
            /\ cBody = initialInputs =>
                  r = [monthly_savings |-> Int2Num(34100),
                       cumulative_savings |-> Int2Num(1227600),
                       net_savings |-> Int2Num(1177600),
                       payback_months |-> Rat(147, 100),
                       roi_percentage |-> Rat(235520, 100)]

C3_Witness == Calculated /\ cBody = initialInputs

\* C4 as stated: if the returned monthly_savings field is <= 0 then payback_months
\* is null, otherwise payback_months is cost / monthly savings (read in the
\* claim's favour: divided by the unrounded savings, shown to 2 decimals).
C4_Original ==
    Calculated =>
        LET i == cOut.inputs
            r == cOut.results
        IN  IF Le(r.monthly_savings, Zero)
            THEN r.payback_months = Null
            ELSE r.payback_months =
                     Round2(Div(i.one_time_implementation_cost, SpecMonthly(i)))

\* C4 as amended: payback_months is null exactly when the unrounded monthly
\* savings are <= 0, otherwise it is cost / unrounded monthly savings rounded to
\* 2 decimals (so the monthly_savings field may read 0 beside a payback).
C4_PaybackOnUnrounded ==
    Calculated =>
        LET i == cOut.inputs
            r == cOut.results
        IN  IF Le(SpecMonthly(i), Zero)
            THEN r.payback_months = Null
            ELSE r.payback_months =
                     Round2(Div(i.one_time_implementation_cost, SpecMonthly(i)))

C4_Witness ==
    /\ Calculated
    /\ cOut.results.monthly_savings = Zero
    /\ cOut.results.payback_months # Null

\* C5 as stated: with a zero cost, roi_percentage is 999 when the returned
\* cumulative_savings field is > 0 and 0 when that field is <= 0.
C5_Original ==
    (Calculated /\ cOut.inputs.one_time_implementation_cost = Zero) =>
        LET r == cOut.results
        IN  IF Gt(r.cumulative_savings, Zero)
            THEN r.roi_percentage = Int2Num(999)
            ELSE r.roi_percentage = Zero

\* C5 as amended: with a zero cost, roi_percentage is 999 when the unrounded
\* cumulative savings are > 0 and 0 when they are <= 0.
C5_RoiOnUnrounded ==
    (Calculated /\ cOut.inputs.one_time_implementation_cost = Zero) =>
        LET r == cOut.results
        IN  IF Gt(SpecCumulative(cOut.inputs), Zero)
            THEN r.roi_percentage = Int2Num(999)
            ELSE r.roi_percentage = Zero

C5_Witness ==
    /\ Calculated
    /\ cOut.inputs.one_time_implementation_cost = Zero
    /\ cOut.results.cumulative_savings = Zero
    /\ cOut.results.roi_percentage = Int2Num(999)

RequiredFields ==
    {"monthly_invoice_volume", "num_ap_staff", "avg_hours_per_invoice", "hourly_wage",
     "error_cost"}

\* The raw values the claims call missing or unparseable: an absent key, null,
\* the empty string, non-numeric text.
MissingOrUnparseable(raw) == raw.k \in {"absent", "null", "empty", "text"}

RawNegative(raw) == raw.k \in {"num", "numstr"} /\ raw.n < 0

\* C6 as stated: for each required field the list holds "<field> must be a
\* non-negative number" exactly when the raw value is missing, unparseable or
\* negative; an absent key, null, "" or non-numeric text is never accepted as 0.
C6_RequiredFlagged ==
    Validated =>
        \A f \in RequiredFields :
            (NonNegativeMsg(f) \in Range(cOut.errors))
                <=> (MissingOrUnparseable(cBody[f]) \/ RawNegative(cBody[f]))

\* The case C6 fails on: a required field sent as null or "" is accepted as 0.
C6_Witness ==
    /\ Accepted
    /\ \E f \in RequiredFields :
          cBody[f] \in {JsonNull, EmptyStr} /\ cOut.inputs[f] = Zero

C9_CostNonNegative ==
    Accepted => Le(Zero, cOut.inputs.one_time_implementation_cost)

\* The case C9 fails on: a negative cost is accepted and a result computed.
C9_Witness ==
    /\ Calculated
    /\ Lt(cOut.inputs.one_time_implementation_cost, Zero)

(***************************************************************************)
(* Properties of the scenario routes (under Spec)                          *)
(***************************************************************************)
\* C1: in every reachable state, each stored scenario's results equal
\* calculate applied to that scenario's stored inputs.
C1_ResultsMatchInputs ==
    \A i \in DOMAIN store : store[i].results = simulate(store[i].inputs)

C1_Witness ==
    /\ Len(store) >= 1
    /\ resp.op = "delete"
    /\ resp.status = 200

\* C2: whenever validate returns errors, POST /simulate and POST /scenarios
\* answer 400 with the complete error list, return no result, and leave the
\* scenario store (and the handlers and id generator) as they were.
C2_AllOrNothing ==
    /\ [](resp.op \in {"simulate", "save"} =>
            LET errors == validateInputs(resp.reqBody).errors
            IN  Len(errors) > 0 =>
                    /\ resp.status = 400
                    /\ resp.errors = errors
                    /\ resp.results = NoResults
                    /\ resp.id = NoId)
    /\ [][(resp' # resp /\ resp'.op \in {"simulate", "save"} /\ resp'.status = 400)
            => (store' = store /\ inflight' = inflight /\ nextId' = nextId)]_vars

C2_Witness ==
    /\ resp.op = "save"
    /\ resp.status = 400
    /\ Len(resp.errors) = 2
    /\ Len(store) > 0

\* C10 as stated: GET /scenarios/:id after a successful save returns inputs and
\* results identical to the validated input record and the result of that save.
C10_Original ==
    (resp.op = "get" /\ resp.reqId \in DOMAIN saved) =>
        /\ resp.status = 200
        /\ resp.inputs = saved[resp.reqId].inputs
        /\ resp.results = saved[resp.reqId].results

\* C10 as amended: GET /scenarios/:id after a successful save (and no delete of
\* that id) answers 200 with results identical to the result of that save and
\* inputs identical to the validated record in every numeric field, while
\* inputs.scenario_name is the resolved name (the trimmed given name, or the
\* default name), not the validated record's.
C10_RoundTrip ==
    (resp.op = "get" /\ resp.reqId \in DOMAIN saved) =>
        LET was == saved[resp.reqId]
        IN  /\ resp.status = 200
            /\ resp.id = resp.reqId
            /\ resp.results = was.results
            /\ \A f \in NumFields : resp.inputs[f] = was.inputs[f]
            /\ resp.inputs.scenario_name = resp.scenario_name
            /\ resp.scenario_name # <<>>
            /\ trim(was.inputs.scenario_name) # <<>> =>
                  resp.scenario_name = trim(was.inputs.scenario_name)

C10_Witness ==
    /\ resp.op = "get"
    /\ resp.status = 200
    /\ resp.reqId \in DOMAIN saved
    /\ resp.inputs.scenario_name # saved[resp.reqId].inputs.scenario_name
    /\ Len(store) >= 2

\* The label "Scenario k", spelled out on its own.
DefaultLabel(k) ==
    <<"S", "c", "e", "n", "a", "r", "i", "o", " ">> \o IntToString(k)

\* The name a request body gives, read as text (none when absent or no string).
GivenName(body) ==
    IF body.scenario_name.k = "str" THEN body.scenario_name.s ELSE <<>>

\* The step in which a save's insert succeeds.
Inserted == Len(store') = Len(store) + 1

\* C11 as stated: a save whose scenario_name is absent or empty stores and
\* returns "Scenario n+1", n being the number of scenarios in the store when
\* the scenario is inserted; a save with a name stores and returns that name.
C11_Original ==
    [][Inserted =>
         LET doc == store'[Len(store')]
             given == resp'.reqBody.scenario_name
         IN  /\ resp'.scenario_name = doc.scenario_name
             /\ (given.k = "absent" \/ (given.k = "str" /\ given.s = <<>>)) =>
                    doc.scenario_name = DefaultLabel(Len(store) + 1)
             /\ (given.k = "str" /\ given.s # <<>>) =>
                    doc.scenario_name = given.s]_vars

\* C11 as amended: the name stored (at the root and inside inputs) and returned
\* by a successful save is the given name with surrounding blanks trimmed when
\* that is not empty; otherwise (name absent, no string, empty or blank) it is
\* "Scenario n+1", n being the number of scenarios in the store when the save's
\* count query ran, which precedes the insert.
C11_DefaultName ==
    /\ [][\A h \in Handlers :
            (inflight[h].pc = "count" /\ inflight'[h].pc = "create") =>
                inflight'[h].scenarioName = DefaultLabel(Len(store) + 1)]_vars
    /\ [][\A h \in Handlers :
            (inflight[h].pc = "create" /\ inflight'[h].pc = "idle"
                /\ resp'.op = "save" /\ resp'.status = 200) =>
                LET doc == store'[Len(store')]
                    given == trim(GivenName(inflight[h].reqBody))
                IN  /\ Inserted
                    /\ doc.scenario_name = inflight[h].scenarioName
                    /\ doc.inputs.scenario_name = doc.scenario_name
                    /\ resp'.scenario_name = doc.scenario_name
                    /\ resp'.id = doc.id
                    /\ given # <<>> => doc.scenario_name = given
                    /\ given = <<>> =>
                          \E n \in 0..MaxIds :
                              doc.scenario_name = DefaultLabel(n + 1)]_vars

\* A second save without a name has answered "Scenario 2".
C11_Witness ==
    /\ resp.op = "save"
    /\ resp.status = 200
    /\ resp.scenario_name = DefaultLabel(2)
    /\ Len(store) = 2

\* C12: a DELETE for an id that is not in the store (never created, already
\* deleted or malformed) answers 404 and leaves the store as it was; a DELETE
\* for an id in the store answers 200 and removes that scenario only.
C12_DeleteNotFound ==
    [][(resp'.op = "delete" /\ inflight' = inflight) =>
         LET id == resp'.reqId
         IN  IF id \in StoredIds
             THEN /\ resp'.status = 200
                  /\ store' = SelectSeq(store, LAMBDA d : d.id # id)
             ELSE /\ resp'.status = 404
                  /\ store' = store]_vars

\* A DELETE of an id that was generated and deleted before has answered 404
\* while another scenario is in the store.
C12_Witness ==
    /\ resp.op = "delete"
    /\ resp.status = 404
    /\ resp.reqId \in 1..(nextId - 1)
    /\ resp.reqId \notin StoredIds
    /\ Len(store) >= 1

\* The stored scenario with a given id.
StoredDoc(id) == CHOOSE d \in Range(store) : d.id = id

\* C13 as stated: GET /scenarios returns exactly one entry {id, scenario_name,
\* created_at} for each scenario in the store and none for any other, and a
\* scenario saved later (it has the larger generated id) never comes after one
\* saved earlier.
C13_NewestFirst ==
    [][(resp'.op = "list" /\ inflight' = inflight) =>
         LET l == resp'.list
         IN  /\ resp'.status = 200
             /\ Len(l) = Len(store)
             /\ { l[i].id : i \in DOMAIN l } = StoredIds
             /\ \A i \in DOMAIN l :
                   /\ l[i].scenario_name = StoredDoc(l[i].id).scenario_name
                   /\ l[i].created_at = StoredDoc(l[i].id).created_at
             /\ \A i, j \in DOMAIN l : i < j => l[i].id > l[j].id]_vars

\* GET /scenarios has listed the earlier of two scenarios first; both carry the
\* same created_at.
C13_Witness ==
    /\ resp.op = "list"
    /\ Len(resp.list) = 2
    /\ resp.list[1].id < resp.list[2].id
    /\ resp.list[1].created_at = resp.list[2].created_at

\* C14: a stored scenario stays in the store with the same id, scenario_name,
\* inputs, results and created_at over every step except a successful DELETE
\* for its own id, and the ids of the scenarios in the store are pairwise
\* distinct.
C14_NeverMutated ==
    /\ [](\A i, j \in DOMAIN store : i # j => store[i].id # store[j].id)
    /\ [][\A d \in Range(store) :
            \/ d \in Range(store')
            \/ /\ resp'.op = "delete"
               /\ resp'.status = 200
               /\ resp'.reqId = d.id
               /\ inflight' = inflight
               /\ Range(store') = Range(store) \ {d}]_vars

\* The second scenario is still stored after the first one was deleted.
C14_Witness ==
    /\ resp.op = "delete"
    /\ resp.status = 200
    /\ resp.reqId = 1
    /\ StoredIds = {2}

\* What the claim expects POST /report/generate to answer to request r in the
\* current state: a response's status, error list, and embedded email, inputs
\* and results (validated and simulated tabulate validateInputs and simulate).
ReportExpected(r) ==
    LET email == IF r.email.k = "str" THEN trim(r.email.s) ELSE <<>>
        v == validated[r.inputs]
        none == [status |-> 400, errors |-> <<>>, email |-> <<>>,
                 inputs |-> NoInputs, results |-> NoResults]
    IN  IF email = <<>> THEN none
        ELSE IF r.scenario_id # NoId THEN
            IF r.scenario_id \notin StoredIds THEN [none EXCEPT !.status = 404]
            ELSE [none EXCEPT !.status = 200, !.email = email,
                              !.inputs = StoredDoc(r.scenario_id).inputs,
                              !.results = StoredDoc(r.scenario_id).results]
        ELSE IF r.withInputs THEN
            IF Len(v.errors) > 0 THEN [none EXCEPT !.errors = v.errors]
            ELSE [none EXCEPT !.status = 200, !.email = email,
                              !.inputs = v.inputs, !.results = simulated[r.inputs]]
        ELSE none

\* C15: POST /report/generate answers 400 when email is missing or blank;
\* otherwise with a scenario_id 404 when no such scenario is stored and else a
\* report of that scenario's stored inputs and results; otherwise with inputs
\* 400 and the error list when validation fails and else a report of the
\* validated inputs and calculate of them; otherwise 400.  The store, the id
\* generator and the pending saves are left as they were.
C15_Report ==
    [][\A r \in ReportRequests :
          (resp'.op = "report" /\ Report(r)) =>
              LET x == ReportExpected(r)
              IN  /\ resp'.op = "report"
                  /\ resp'.status = x.status
                  /\ resp'.errors = x.errors
                  /\ resp'.email = x.email
                  /\ resp'.inputs = x.inputs
                  /\ resp'.results = x.results
                  /\ store' = store
                  /\ nextId' = nextId
                  /\ inflight' = inflight]_vars

\* A report was built from a stored scenario, whose inputs differ from the
\* validated initial values of the form.
C15_Witness ==
    /\ resp.op = "report"
    /\ resp.status = 200
    /\ resp.reqId \in StoredIds
    /\ resp.inputs = StoredDoc(resp.reqId).inputs
    /\ resp.results = StoredDoc(resp.reqId).results
    /\ resp.inputs # validateInputs(initialInputs).inputs

\* The answer to POST /simulate as a function of the body alone.
SimulateExpected(body) ==
    LET v == validateInputs(body)
    IN  IF Len(v.errors) > 0
        THEN [Response("simulate", 400) EXCEPT !.reqBody = body, !.errors = v.errors]
        ELSE [Response("simulate", 200) EXCEPT !.reqBody = body,
                                                !.results = simulate(v.inputs)]

\* C16: the answer to POST /simulate is one function of the request body, the
\* same in every state whatever saves, deletes or simulate calls came before or
\* are pending, and a simulate request changes nothing but the response.
C16_Stateless ==
    /\ [](resp.op = "simulate" => resp = SimulateExpected(resp.reqBody))
    /\ [][(resp'.op = "simulate" /\ resp' # resp) =>
            /\ store' = store
            /\ inflight' = inflight
            /\ nextId' = nextId
            /\ clock' = clock]_vars

\* POST /simulate has answered while a scenario is stored and a save is pending.
C16_Witness ==
    /\ resp.op = "simulate"
    /\ resp.status = 200
    /\ Len(store) >= 1
    /\ store[Len(store)].results # resp.results
    /\ Pending # {}

(***************************************************************************)
(* Default names (under SpecNames)                                         *)
(***************************************************************************)
\* The stored scenario with this id got its name from the server.
Assigned(id) == trim(saved[id].inputs.scenario_name) = <<>>

\* Pairs of stored scenarios, the first inserted earlier, that carry the same
\* server-assigned name.
DupPairs ==
    { p \in StoredIds \X StoredIds :
        /\ p[1] < p[2]
        /\ Assigned(p[1])
        /\ Assigned(p[2])
        /\ StoredDoc(p[1]).scenario_name = StoredDoc(p[2]).scenario_name }

\* C17 as stated: two stored scenarios carry the same server-assigned name
\* only if their saves overlapped, i.e. the later save read the count before
\* the earlier save's insert completed; saves and deletes that run one at a
\* time give distinct server-assigned names.
C17_Original ==
    \A p \in DupPairs : p[1] \notin saved[p[2]].seen

\* C17 as amended: two stored scenarios carry the same server-assigned name
\* only if the later save read the count before the earlier save's insert
\* completed, or a scenario counted by the earlier save was deleted before the
\* later save read the count.
C17_DuplicateNames ==
    \A p \in DupPairs :
        \/ p[1] \notin saved[p[2]].seen
        \/ ~(saved[p[1]].seen \subseteq saved[p[2]].seen)

\* Two overlapping saves have stored the same default name.
C17_Witness ==
    \E p \in DupPairs :
        /\ p[1] \notin saved[p[2]].seen
        /\ saved[p[1]].seen \subseteq saved[p[2]].seen

(***************************************************************************)
(* The two servers compared (under SpecBoth)                               *)
(***************************************************************************)
\* The ids and names of a list response, in its order.
ListOrder(a) == [i \in DOMAIN a.list |-> <<a.list[i].id, a.list[i].scenario_name>>]

\* Two answers agree in status, errors, id, name, inputs, results and list
\* order (generated ids related by their order of generation).
SameAnswer(a, b) ==
    /\ a.op = b.op
    /\ a.status = b.status
    /\ a.errors = b.errors
    /\ a.id = b.id
    /\ a.scenario_name = b.scenario_name
    /\ a.inputs = b.inputs
    /\ a.results = b.results
    /\ a.email = b.email
    /\ ListOrder(a) = ListOrder(b)

\* C18 as stated: whenever both servers have answered the same request of the
\* same sequence of requests, their answers agree in status code, scenario
\* name, inputs, results and list order.
C18_Interchangeable ==
    phase = "idle" => SameAnswer(resp, pgResp)

\* Both servers have answered GET /scenarios and list the same two scenarios
\* in different orders.
C18_Witness ==
    /\ phase = "idle"
    /\ req.op = "list"
    /\ Len(resp.list) = 2
    /\ Len(pgResp.list) = 2
    /\ resp.list[1].id = pgResp.list[2].id
    /\ resp.list[2].id = pgResp.list[1].id

(***************************************************************************)
(* The form's live simulation (under SpecUI)                               *)
(***************************************************************************)
\* The last /simulate request has settled and no load or save is in progress.
Quiescent ==
    /\ uiRuns # <<>>
    /\ uiRuns[Len(uiRuns)].pc = "done"
    /\ uiBusy.pc = "idle"

\* C19 as stated: once the last /simulate request has settled, the results
\* shown are the ones computed for the inputs now in the form (none when
\* nothing can be computed for them); and the request of a superseded run is
\* aborted, its response never applied.
C19_AutoSimulate ==
    /\ [](Quiescent =>
            LET v == validateInputs(uiInputs)
            IN  IF Len(v.errors) = 0
                THEN uiResults = simulate(v.inputs)
                ELSE uiResults = NoResults)
    /\ [][\A n \in DOMAIN uiRuns :
            (n < Len(uiRuns) /\ uiRuns[n].pc = "answered" /\ uiRuns'[n].pc = "done") =>
                (uiRuns[n].aborted /\ uiResults' = uiResults)]_vars

\* The months field was cleared, the last /simulate request has settled with
\* 400, and the results of the initial inputs are still shown.
C19_Witness ==
    /\ Quiescent
    /\ uiInputs.time_horizon_months = Int2Num(0)
    /\ uiRuns[Len(uiRuns)].answer.status = 400
    /\ uiResults = simulate(validateInputs(initialInputs).inputs)

====
